---- MODULE Spec2Model ----
(***************************************************************************)
(* Model of src/evaluate_diffusion.py: the evaluation driver that folds a  *)
(* set of generated samples into corpus-level validity statistics.         *)
(*                                                                         *)
(* The state is the state of the __main__ script: the parsed arguments,    *)
(* the loaded results, the accumulators of lines 54-60, the loop locals,   *)
(* and the position of control (pc).  One action models one stage of the   *)
(* per-sample loop or one post-loop step.                                  *)
(***************************************************************************)
EXTENDS Integers, Sequences, FiniteSets, TLC

\* ------------------------------------------------------------------ bounds
MaxSamples == 2
MaxAtoms == 2

\* ------------------------------------------------------------- value sets
NONE == "None"
Elements == {6, 8}
DockingModes == {"qvina", "vina_score", "vina_dock", "none"}

\* Python's `a / b` on ints: ZeroDivisionError when b = 0, else the exact
\* quotient, kept as the pair <<a, b>>.
Div(a, b) == IF b = 0 THEN <<"ZeroDivisionError">> ELSE <<a, b>>
Raises(q) == Len(q) = 1

\* collections.Counter over the atom types: a total map, 0 for an absent key.
EmptyCounter == [e \in Elements |-> 0]
Counter(types) == [e \in Elements |-> Cardinality({i \in DOMAIN types : types[i] = e})]
CounterAdd(c, d) == [e \in Elements |-> c[e] + d[e]]

\* -------------------------------------------------- external collaborators
\* transforms.get_atomic_number_from_index: the atomic numbers of a sample
\* with n atoms (atoms alternate carbon, oxygen).
AtomicNumbers(n) == [i \in 1..n |-> IF i % 2 = 1 THEN 6 ELSE 8]

\* The verdicts analyze.check_stability returns for the samples of n atoms:
\* (molecule_stable, n_stable_atoms, n_atoms).  A sample is stable in every
\* atom, or unstable in one; the bool adds to the totals as 0 or 1.
Verdicts(n) == {<<1, n, n>>} \cup (IF n >= 1 THEN {<<0, n - 1, n>>} ELSE {})

\* What reconstruct_from_generated + MolToSmiles yield for n atoms: the
\* reconstruction raises MolReconsError, or gives one connected molecule, or
\* (two atoms or more) a molecule of disconnected fragments.
ReconOutcomes(n) == {"MolReconsError", "connected"} \cup (IF n >= 2 THEN {"fragments"} ELSE {})

\* One entry of r['all_results'], with what the deterministic collaborators
\* compute from it.
Samples ==
    {[decodable |-> FALSE, n_atoms |-> 0, stability |-> <<0, 0, 0>>, recon |-> "MolReconsError"]}
    \cup
    UNION {{[decodable |-> TRUE, n_atoms |-> n, stability |-> v, recon |-> o] :
              v \in Verdicts(n), o \in ReconOutcomes(n)} : n \in 0..MaxAtoms}

\* Any verdict of n atoms, and the samples that carry one: each reconstructs
\* into a connected molecule or fails to reconstruct.
AnyVerdicts(n) == {<<ms, ns, n>> : ms \in {0, 1}, ns \in 0..n}
AnyVerdictSamples ==
    UNION {{[decodable |-> TRUE, n_atoms |-> n, stability |-> v, recon |-> o] :
              v \in AnyVerdicts(n), o \in {"MolReconsError", "connected"}} :
           n \in 0..MaxAtoms}

RECURSIVE SeqsUpTo(_, _)
SeqsUpTo(S, n) == IF n = 0 THEN {<<>>}
                  ELSE LET shorter == SeqsUpTo(S, n - 1)
                       IN shorter \cup {Append(s, x) : s \in {t \in shorter : Len(t) = n - 1}, x \in S}

Min(a, b) == IF a <= b THEN a ELSE b
Max(a, b) == IF a >= b THEN a ELSE b

\* eval_bond_length.pair_distance_from_pos_v: one record per atom pair i < j,
\* (element_i, element_j, distance) with the elements in canonical order.
\* Atom i sits at coordinate i, so the distance of i and j is j - i.
RECURSIVE PairsFrom(_, _, _)
PairsFrom(types, i, j) ==
    IF i >= Len(types) THEN <<>>
    ELSE IF j > Len(types) THEN PairsFrom(types, i + 1, i + 2)
    ELSE <<<<Min(types[i], types[j]), Max(types[i], types[j]), j - i>>>>
         \o PairsFrom(types, i, j + 1)
PairDistanceFromPosV(types) == PairsFrom(types, 1, 2)

\* reconstruct.reconstruct_from_generated: the molecule object; a connected
\* molecule is a chain of single bonds, a fragmented one has no bond.
ReconstructFromGenerated(types, outcome) ==
    [atoms |-> types,
     bonds |-> IF outcome = "connected" THEN {<<i, i + 1>> : i \in 1..(Len(types) - 1)} ELSE {}]

\* The element symbol of an atomic number.
Symbol(e) == IF e = 6 THEN "C" ELSE "O"

\* Chem.MolToSmiles: the atoms' symbols in order, a "." between two atoms
\* that no bond joins.
RECURSIVE SmilesFrom(_, _)
SmilesFrom(m, i) ==
    IF i > Len(m.atoms) THEN <<>>
    ELSE (IF i > 1 /\ <<i - 1, i>> \notin m.bonds THEN <<".">> ELSE <<>>)
         \o <<Symbol(m.atoms[i])>> \o SmilesFrom(m, i + 1)
MolToSmiles(m) == SmilesFrom(m, 1)

\* eval_bond_length.bond_distance_from_mol: one record per bond.
RECURSIVE BondsFrom(_, _)
BondsFrom(m, i) ==
    IF i >= Len(m.atoms) THEN <<>>
    ELSE (IF <<i, i + 1>> \in m.bonds
          THEN <<<<Min(m.atoms[i], m.atoms[i + 1]), Max(m.atoms[i], m.atoms[i + 1]), 1>>>>
          ELSE <<>>)
         \o BondsFrom(m, i + 1)
BondDistanceFromMol(m) == BondsFrom(m, 1)

\* The calls of the check with the dock run ahead of the minimize run.
ScoreCalls_DockFirst(mode) ==
    CASE mode = "qvina" -> <<"get_chem", "run_sync">>
      [] mode = "vina_score" -> <<"get_chem", "run:score_only", "run:minimize">>
      [] mode = "vina_dock" -> <<"get_chem", "run:score_only", "run:dock", "run:minimize">>
      [] OTHER -> <<"get_chem">>

\* The calls of the chemical and docking check, in order, per docking mode.
ScoreCalls(mode) ==
    CASE mode = "qvina" -> <<"get_chem", "run_sync">>
      [] mode = "vina_score" -> <<"get_chem", "run:score_only", "run:minimize">>
      [] mode = "vina_dock" -> <<"get_chem", "run:score_only", "run:minimize", "run:dock">>
      [] OTHER -> <<"get_chem">>

\* ------------------------------------------------------------------- state
VARIABLES
    args,               \* parsed arguments: verbose, docking_mode
    r,                  \* r['all_results']
    num_samples,
    all_mol_stable, all_atom_stable, all_n_atom,
    n_recon_success, n_eval_success, n_complete,
    results,
    all_pair_dist, all_bond_dist, all_atom_types,
    success_pair_dist, success_atom_types,
    sample_idx,         \* -1 before the first iteration
    pred_atom_type, r_stable, pair_dist, mol, smiles,   \* loop locals
    pc,                 \* position of control
    exception,          \* the exception that ended the script, or NONE
    log,                \* messages handed to the logger, in order
    calls,              \* collaborator calls made for the current sample
    validity_dict,      \* the fractions printed at line 141, or NONE
    summary,            \* the numbers of the final log line, or NONE
    entry               \* the counters as they stood when the current sample began

counters == <<n_recon_success, n_complete, n_eval_success>>
stability_totals == <<all_mol_stable, all_atom_stable, all_n_atom>>
success_acc == <<all_bond_dist, success_pair_dist, success_atom_types>>
all_acc == <<all_pair_dist, all_atom_types>>
locals == <<pred_atom_type, r_stable, pair_dist, mol, smiles>>
inputs == <<args, r, num_samples>>
outputs == <<validity_dict, summary>>
vars == <<inputs, stability_totals, counters, results, all_acc, success_acc,
          sample_idx, locals, pc, exception, log, calls, outputs, entry>>

Snapshot == [n_recon_success |-> n_recon_success, n_complete |-> n_complete,
             n_eval_success |-> n_eval_success, all_bond_dist |-> all_bond_dist,
             success_pair_dist |-> success_pair_dist,
             success_atom_types |-> success_atom_types]

\* ------------------------------------------------------------------- Init
\* The state after line 60: arguments parsed, results loaded, accumulators reset.
InitRuns(argsets, runs) ==
    /\ args \in argsets
    /\ r \in runs
    /\ num_samples = Len(r)
    /\ all_mol_stable = 0 /\ all_atom_stable = 0 /\ all_n_atom = 0
    /\ n_recon_success = 0 /\ n_eval_success = 0 /\ n_complete = 0
    /\ results = <<>>
    /\ all_pair_dist = <<>> /\ all_bond_dist = <<>>
    /\ all_atom_types = EmptyCounter
    /\ success_pair_dist = <<>> /\ success_atom_types = EmptyCounter
    /\ sample_idx = -1
    /\ pred_atom_type = NONE /\ r_stable = NONE /\ pair_dist = NONE
    /\ mol = NONE /\ smiles = NONE
    /\ pc = "loop"
    /\ exception = NONE
    /\ log = <<"Load generated data done">>
    /\ calls = <<>>
    /\ validity_dict = NONE /\ summary = NONE
    /\ entry = [n_recon_success |-> 0, n_complete |-> 0, n_eval_success |-> 0,
                all_bond_dist |-> <<>>, success_pair_dist |-> <<>>,
                success_atom_types |-> EmptyCounter]

InitWith(argsets, samples) == InitRuns(argsets, SeqsUpTo(samples, MaxSamples))

Init == InitWith([verbose : BOOLEAN, docking_mode : DockingModes], Samples)

\* The same, with the default arguments and with samples whose stability
\* verdict is any (molecule_stable, n_stable_atoms, n_atoms) with
\* molecule_stable in {0, 1} and 0 <= n_stable_atoms <= n_atoms.
InitAnyVerdict ==
    InitWith({[verbose |-> FALSE, docking_mode |-> "none"]}, AnyVerdictSamples)

\* The sample of the current iteration (r['all_results'][sample_idx]).
Current == r[sample_idx + 1]

\* --------------------------------------------------------------- actions
\* An exception nothing catches ends the script.
Raise(e) == pc' = "crashed" /\ exception' = e

\* Line 63: the for statement takes the next sample.
NextSample ==
    /\ pc = "loop"
    /\ sample_idx + 1 < Len(r)
    /\ sample_idx' = sample_idx + 1
    /\ calls' = <<>>
    /\ entry' = Snapshot
    /\ pc' = "stability"
    /\ UNCHANGED <<inputs, stability_totals, counters, results, all_acc, success_acc,
                   locals, exception, log, outputs>>

\* Lines 63 and 127: the iterator is exhausted, control leaves the loop and
\* the end of the evaluation is logged.
EvaluateDone ==
    /\ pc = "loop"
    /\ sample_idx + 1 >= Len(r)
    /\ log' = Append(log, "Evaluate done")
    /\ pc' = "fractions"
    /\ UNCHANGED <<inputs, stability_totals, counters, results, all_acc, success_acc,
                   sample_idx, locals, exception, calls, outputs, entry>>

\* Lines 70-72: the stability totals after a verdict is added.
StabilityTotals_Swapped(verdict) ==
    <<all_mol_stable + verdict[1], all_atom_stable + verdict[3], all_n_atom + verdict[2]>>
StabilityTotals(verdict) ==
    <<all_mol_stable + verdict[1], all_atom_stable + verdict[2], all_n_atom + verdict[3]>>

\* Lines 69-78: whatever the verdict, control goes on to the reconstruction.
AfterStability_Gated(verdict) == IF verdict[1] = 0 THEN "loop" ELSE "reconstruct"
AfterStability(verdict) == "reconstruct"

\* Lines 64-75: decode the atom types, check stability, collect pair distances.
\* Nothing catches an exception of the decoder.
StabilityCheck ==
    /\ pc = "stability"
    /\ IF ~Current.decodable
       THEN /\ Raise("DecodeError")
            /\ calls' = Append(calls, "get_atomic_number_from_index")
            /\ UNCHANGED <<stability_totals, all_acc, pred_atom_type, r_stable, pair_dist>>
       ELSE LET types == AtomicNumbers(Current.n_atoms)
                verdict == Current.stability
                pairs == PairDistanceFromPosV(types)
            IN /\ pred_atom_type' = types
               /\ all_atom_types' = CounterAdd(all_atom_types, Counter(types))
               /\ r_stable' = verdict
               /\ all_mol_stable' = StabilityTotals(verdict)[1]
               /\ all_atom_stable' = StabilityTotals(verdict)[2]
               /\ all_n_atom' = StabilityTotals(verdict)[3]
               /\ pair_dist' = pairs
               /\ all_pair_dist' = all_pair_dist \o pairs
               /\ calls' = calls \o <<"get_atomic_number_from_index", "check_stability",
                                      "pair_distance_from_pos_v">>
               /\ pc' = AfterStability(verdict)
               /\ UNCHANGED exception
    /\ UNCHANGED <<inputs, counters, results, success_acc, sample_idx, mol, smiles,
                   log, outputs, entry>>

\* Lines 84 and 117: the warning's message names example_idx, which no line
\* of the script binds: building the message raises NameError inside the
\* except clause, and nothing is logged.
WarnOrContinue ==
    IF args.verbose
    THEN Raise("NameError")
    ELSE pc' = "loop" /\ UNCHANGED exception

\* Lines 77-86: reconstruction; only MolReconsError is caught.
Reconstruct ==
    /\ pc = "reconstruct"
    /\ IF Current.recon = "MolReconsError"
       THEN /\ calls' = calls \o <<"is_aromatic_from_index", "reconstruct_from_generated">>
            /\ WarnOrContinue
            /\ UNCHANGED <<mol, smiles, n_recon_success>>
       ELSE LET m == ReconstructFromGenerated(pred_atom_type, Current.recon)
            IN /\ mol' = m
               /\ smiles' = MolToSmiles(m)
               /\ calls' = calls \o <<"is_aromatic_from_index", "reconstruct_from_generated",
                                      "MolToSmiles">>
               /\ n_recon_success' = n_recon_success + 1
               /\ pc' = "completeness"
               /\ UNCHANGED exception
    /\ UNCHANGED <<inputs, stability_totals, n_complete, n_eval_success, results, all_acc,
                   success_acc, sample_idx, pred_atom_type, r_stable, pair_dist, log,
                   outputs, entry>>

\* Line 90 adding to the wrong counter.
CompletenessCheck_WrongCounter ==
    /\ pc = "completeness"
    /\ IF \E i \in DOMAIN smiles : smiles[i] = "."
       THEN pc' = "loop" /\ UNCHANGED n_eval_success
       ELSE pc' = "score" /\ n_eval_success' = n_eval_success + 1
    /\ UNCHANGED <<inputs, stability_totals, n_recon_success, n_complete, results,
                   all_acc, success_acc, sample_idx, locals, exception, log, calls,
                   outputs, entry>>

\* Line 89 without its continue.
CompletenessCheck_NoGate ==
    /\ pc = "completeness"
    /\ pc' = "score"
    /\ n_complete' = n_complete + 1
    /\ UNCHANGED <<inputs, stability_totals, n_recon_success, n_eval_success, results,
                   all_acc, success_acc, sample_idx, locals, exception, log, calls,
                   outputs, entry>>

\* Lines 88-90: a molecule with a "." in its SMILES is not complete.
CompletenessCheck ==
    /\ pc = "completeness"
    /\ IF \E i \in DOMAIN smiles : smiles[i] = "."
       THEN pc' = "loop" /\ UNCHANGED n_complete
       ELSE pc' = "score" /\ n_complete' = n_complete + 1
    /\ UNCHANGED <<inputs, stability_totals, n_recon_success, n_eval_success, results,
                   all_acc, success_acc, sample_idx, locals, exception, log, calls,
                   outputs, entry>>

\* Line 114 moved to the head of the try block.
Score_CountsEarly ==
    /\ pc = "score"
    /\ LET chain == ScoreCalls(args.docking_mode)
       IN \E made \in 1..Len(chain), raised \in BOOLEAN :
            /\ (made < Len(chain)) => raised
            /\ calls' = calls \o SubSeq(chain, 1, made)
            /\ n_eval_success' = n_eval_success + 1
            /\ IF raised
               THEN WarnOrContinue
               ELSE pc' = "accumulate" /\ UNCHANGED exception
    /\ UNCHANGED <<inputs, stability_totals, n_recon_success, n_complete, results, all_acc,
                   success_acc, sample_idx, locals, log, outputs, entry>>

\* Lines 92-118: get_chem, then the docking calls of the mode, in order.  The
\* first call that raises ends the try block; the bare except catches it.
\* The docking calls (lines 98, 102, 103, 109) are made without a timeout: a
\* docking run that never returns leaves the script waiting in the call.
Score ==
    /\ pc = "score"
    /\ LET chain == ScoreCalls(args.docking_mode)
       IN \E made \in 1..Len(chain), outcome \in {"returns", "raises", "hangs"} :
            /\ (made < Len(chain)) => outcome # "returns"
            /\ (outcome = "hangs") => made >= 2
            /\ calls' = calls \o SubSeq(chain, 1, made)
            /\ CASE outcome = "raises" -> WarnOrContinue /\ UNCHANGED n_eval_success
                 [] outcome = "hangs" -> /\ pc' = "blocked"
                                         /\ UNCHANGED <<n_eval_success, exception>>
                 [] OTHER -> /\ n_eval_success' = n_eval_success + 1
                             /\ pc' = "accumulate"
                             /\ UNCHANGED exception
    /\ UNCHANGED <<inputs, stability_totals, n_recon_success, n_complete, results, all_acc,
                   success_acc, sample_idx, locals, log, outputs, entry>>

\* Lines 120-125 with all_pair_dist in place of pair_dist on line 123.
Accumulate_AllPairs ==
    /\ pc = "accumulate"
    /\ all_bond_dist' = all_bond_dist \o BondDistanceFromMol(mol)
    /\ success_pair_dist' = success_pair_dist \o all_pair_dist
    /\ success_atom_types' = CounterAdd(success_atom_types, Counter(pred_atom_type))
    /\ pc' = "loop"
    /\ UNCHANGED <<inputs, stability_totals, counters, results, all_acc, sample_idx,
                   locals, exception, log, calls, outputs, entry>>

\* Lines 120-125 with `=` in place of `+=` on line 123.
Accumulate_Overwrite ==
    /\ pc = "accumulate"
    /\ all_bond_dist' = all_bond_dist \o BondDistanceFromMol(mol)
    /\ success_pair_dist' = pair_dist
    /\ success_atom_types' = CounterAdd(success_atom_types, Counter(pred_atom_type))
    /\ pc' = "loop"
    /\ UNCHANGED <<inputs, stability_totals, counters, results, all_acc, sample_idx,
                   locals, exception, log, calls, outputs, entry>>

\* Lines 120-125: the accumulators of the "success" molecules.
Accumulate ==
    /\ pc = "accumulate"
    /\ all_bond_dist' = all_bond_dist \o BondDistanceFromMol(mol)
    /\ success_pair_dist' = success_pair_dist \o pair_dist
    /\ success_atom_types' = CounterAdd(success_atom_types, Counter(pred_atom_type))
    /\ pc' = "loop"
    /\ UNCHANGED <<inputs, stability_totals, counters, results, all_acc, sample_idx,
                   locals, exception, log, calls, outputs, entry>>

\* Lines 129-140: the five fractions.
Fractions ==
    [mol_stable |-> Div(all_mol_stable, num_samples),
     atm_stable |-> Div(all_atom_stable, all_n_atom),
     recon_success |-> Div(n_recon_success, num_samples),
     eval_success |-> Div(n_eval_success, num_samples),
     complete |-> Div(n_complete, num_samples)]

\* Lines 129-161: compute the fractions and print them, then the profiles of
\* the accumulated distances and the final line.  A division by zero ends
\* the script before anything is printed.
Report ==
    /\ pc = "fractions"
    /\ IF \E k \in DOMAIN Fractions : Raises(Fractions[k])
       THEN Raise("ZeroDivisionError") /\ UNCHANGED <<validity_dict, summary, log>>
       ELSE /\ validity_dict' = Fractions
            /\ log' = log \o <<"validity_dict", "JS bond distances of complete mols",
                               "success pair JS", "Atom type JS",
                               "Number of reconstructed mols">>
            /\ summary' = [reconstructed |-> n_recon_success, complete |-> n_complete,
                           evaluated |-> Len(results)]
            /\ pc' = "done"
            /\ UNCHANGED exception
    /\ UNCHANGED <<inputs, stability_totals, counters, results, all_acc, success_acc,
                   sample_idx, locals, calls, entry>>

Next ==
    \/ NextSample
    \/ StabilityCheck
    \/ Reconstruct
    \/ CompletenessCheck
    \/ Score
    \/ Accumulate
    \/ EvaluateDone
    \/ Report

Spec == Init /\ [][Next]_vars

\* The runs over samples of any stability verdict.
SpecAnyVerdict == InitAnyVerdict /\ [][Next]_vars

\* The run of the ten-sample scenario: four samples that reconstruct into a
\* connected molecule, three whose atom types do not decode (line 67 raises),
\* two that fail reconstruction and one that reconstructs into fragments.  The
\* run starts at any rotation of the samples; the same rotations without the
\* undecodable samples are runs that reach the report.
ScenarioSample(kind) ==
    IF kind = "decode_fail"
    THEN [decodable |-> FALSE, n_atoms |-> 0, stability |-> <<0, 0, 0>>, recon |-> "MolReconsError"]
    ELSE [decodable |-> TRUE, n_atoms |-> MaxAtoms, stability |-> <<1, MaxAtoms, MaxAtoms>>,
          recon |-> CASE kind = "recon_fail" -> "MolReconsError"
                      [] kind = "disconnected" -> "fragments"
                      [] OTHER -> "connected"]
ScenarioKinds ==
    <<"success", "decode_fail", "recon_fail", "success", "disconnected",
      "decode_fail", "success", "recon_fail", "decode_fail", "success">>
Rotate(s, k) == [i \in 1..Len(s) |-> s[((i + k - 1) % Len(s)) + 1]]
Rotations(s) == {Rotate(s, k) : k \in 0..(Len(s) - 1)}
IsDecodable(s) == s.decodable
ScenarioRuns ==
    LET run == [i \in 1..Len(ScenarioKinds) |-> ScenarioSample(ScenarioKinds[i])]
    IN Rotations(run) \cup Rotations(SelectSeq(run, IsDecodable))
InitScenario == InitRuns({[verbose |-> FALSE, docking_mode |-> "none"]}, ScenarioRuns)
SpecScenario == InitScenario /\ [][Next]_vars

\* ------------------------------------------------- what the claims speak of
\* The current sample has reached the call c.
Reached(c) == \E i \in DOMAIN calls : calls[i] = c

\* The samples whose stability check has run.
Checked == IF pc = "stability" \/ exception = "DecodeError" THEN sample_idx ELSE sample_idx + 1

\* A sample that reconstructs into one connected molecule.
Complete(s) == s.decodable /\ s.recon = "connected"

PairsOf(s) == PairDistanceFromPosV(AtomicNumbers(s.n_atoms))
BondsOf(s) == BondDistanceFromMol(ReconstructFromGenerated(AtomicNumbers(s.n_atoms), s.recon))

\* The sum of component i of the verdicts of the first k samples.
RECURSIVE VerdictSum(_, _)
VerdictSum(k, i) == IF k <= 0 THEN 0 ELSE VerdictSum(k - 1, i) + r[k].stability[i]

\* The pair records of the first k samples, in order.
RECURSIVE AllPairs(_)
AllPairs(k) == IF k <= 0 THEN <<>> ELSE AllPairs(k - 1) \o PairsOf(r[k])

\* The pair records, and the bond records, of the complete samples among the
\* first k.
RECURSIVE CompletePairs(_)
CompletePairs(k) ==
    IF k <= 0 THEN <<>>
    ELSE CompletePairs(k - 1) \o (IF Complete(r[k]) THEN PairsOf(r[k]) ELSE <<>>)
RECURSIVE CompleteBonds(_)
CompleteBonds(k) ==
    IF k <= 0 THEN <<>>
    ELSE CompleteBonds(k - 1) \o (IF Complete(r[k]) THEN BondsOf(r[k]) ELSE <<>>)

\* A fraction <<a, b>> that is defined and lies in [0, 1].
InUnit(f) == ~Raises(f) /\ f[2] > 0 /\ 0 <= f[1] /\ f[1] <= f[2]

\* The fractions have been printed (line 141).
Reported == pc = "done"

\* The collaborator calls of one sample, in the order of the loop body.
StageOrder ==
    <<"get_atomic_number_from_index", "check_stability", "pair_distance_from_pos_v",
      "is_aromatic_from_index", "reconstruct_from_generated", "MolToSmiles">>
    \o ScoreCalls(args.docking_mode)

IsPrefix(s, t) == Len(s) <= Len(t) /\ SubSeq(t, 1, Len(s)) = s

\* ------------------------------------------------------------------ claims
\* C1: a reconstruction failure is caught inside the loop, with verbose mode
\* on or off: the step that meets MolReconsError returns control to the loop
\* head and no exception is raised.
C1_ReconFailureCaught ==
    [][(pc = "reconstruct" /\ Current.recon = "MolReconsError")
          => (pc' = "loop" /\ exception' = NONE)]_vars

\* C2: a failure of the chemical/docking check does not abort the loop, with
\* verbose mode on or off: the scoring step either succeeds, or leaves
\* n_eval_success as it was, raises nothing and returns to the loop head.
C2_ScoreFailureCaught ==
    [][pc = "score"
          => \/ pc' = "accumulate"
             \/ pc' = "blocked"
             \/ (pc' = "loop" /\ exception' = NONE /\ n_eval_success' = n_eval_success)]_vars

\* C3: in every state n_eval_success <= n_complete <= n_recon_success <=
\* samples processed so far <= num_samples.
C3_CounterOrder ==
    /\ 0 <= n_eval_success
    /\ n_eval_success <= n_complete
    /\ n_complete <= n_recon_success
    /\ n_recon_success <= sample_idx + 1
    /\ sample_idx + 1 <= num_samples

C3_Witness ==
    /\ pc = "done"
    /\ num_samples = 2
    /\ n_recon_success = 2 /\ n_complete = 1 /\ n_eval_success = 1

\* C4: whenever the fractions are printed, each of the five is defined and
\* lies in [0, 1].
C4_FractionsInUnit ==
    Reported => \A k \in DOMAIN validity_dict : InUnit(validity_dict[k])

\* A report of a run that held a sample with no atom and a sample of two
\* atoms, one of them stable, that failed its reconstruction.
C4_Witness ==
    /\ Reported
    /\ \E k \in DOMAIN r : r[k].n_atoms = 0
    /\ validity_dict.atm_stable = <<1, 2>>
    /\ validity_dict.mol_stable = <<2, 2>>
    /\ validity_dict.recon_success = <<1, 2>>
    /\ validity_dict.eval_success = <<0, 2>>

C6_EmptyInputFailsFirst ==
    num_samples = 0 => (\A i \in DOMAIN log : log[i] # "Evaluate done")

\* C7: at report time all_bond_dist holds the bond records of every sample
\* that was reconstructed and complete, whether or not its scoring succeeded.
C7_BondDistOfComplete ==
    Reported => all_bond_dist = CompleteBonds(num_samples)

\* C8: at the end of the run success_pair_dist holds the pair records of
\* exactly the reconstructed and complete samples and all_pair_dist those of
\* every processed sample; both are empty at the start.
C8_PairLists ==
    /\ (sample_idx = -1) => (success_pair_dist = <<>> /\ all_pair_dist = <<>>)
    /\ pc = "done" => /\ success_pair_dist = CompletePairs(num_samples)
                      /\ all_pair_dist = AllPairs(num_samples)

\* C9: the stability check never gates progression: the stability totals and
\* all_pair_dist cover every sample whose check has run, whatever happened to
\* it later, and a checked sample goes on to the reconstruction whatever its
\* verdict.
C9_StabilityIndependent ==
    /\ all_mol_stable = VerdictSum(Checked, 1)
    /\ all_atom_stable = VerdictSum(Checked, 2)
    /\ all_n_atom = VerdictSum(Checked, 3)
    /\ all_pair_dist = AllPairs(Checked)
    /\ Reached("check_stability") => (pc = "reconstruct" \/ Reached("is_aromatic_from_index"))

\* The second sample, judged unstable, is counted in all three counters.
C9_Witness ==
    /\ pc = "accumulate" /\ sample_idx = 1
    /\ r_stable[1] = 0
    /\ n_recon_success = entry.n_recon_success + 1
    /\ n_complete = entry.n_complete + 1
    /\ n_eval_success = entry.n_eval_success + 1
    /\ all_mol_stable = 1

\* C10: within one sample the stages run in the fixed order, each gated on
\* the one before: the completeness check runs only on a sample whose
\* reconstruction succeeded, and get_chem and the docking calls are made only
\* for a reconstructed and complete sample.
C10_StageOrder ==
    /\ IsPrefix(calls, StageOrder)
    /\ pc = "completeness" => (Current.recon # "MolReconsError" /\ Reached("MolToSmiles"))
    /\ (pc \in {"score", "accumulate"} \/ Reached("get_chem"))
          => (Complete(Current) /\ Reached("MolToSmiles"))

\* The last docking call of vina_dock has returned for the second sample.
C10_Witness ==
    /\ pc = "accumulate" /\ sample_idx = 1
    /\ calls = StageOrder
    /\ Reached("run:dock")

\* C11: a run of 10 samples of which 3 fail decoding, 2 fail reconstruction,
\* 1 reconstructs into fragments and 4 reconstruct into a connected molecule
\* ends with the report, with n_recon_success = 5, n_complete = 4 and
\* fraction_complete = 4/10 = 2/5.
Count(P(_)) == Cardinality({k \in DOMAIN r : P(r[k])})
FailsDecoding(s) == ~s.decodable
FailsReconstruction(s) == s.decodable /\ s.recon = "MolReconsError"
Disconnected(s) == s.decodable /\ s.recon = "fragments"
IsScenario ==
    /\ Len(r) = 10
    /\ Count(FailsDecoding) = 3
    /\ Count(FailsReconstruction) = 2
    /\ Count(Disconnected) = 1
    /\ Count(Complete) = 4
Ended == pc \in {"done", "crashed", "blocked"}
C11_ScenarioReport ==
    (IsScenario /\ Ended)
        => /\ pc = "done"
           /\ summary.reconstructed = 5
           /\ summary.complete = 4
           /\ validity_dict.complete[1] * 5 = 2 * validity_dict.complete[2]

\* The multiset of the entries of a list.
BagOf(s) == [x \in {s[i] : i \in DOMAIN s} |-> Cardinality({i \in DOMAIN s : s[i] = x})]

\* The counters and lists that every sample feeds (lines 67-75, 86, 90), after
\* the first k samples of `run`, taken in the order of `run`.
RECURSIVE TallyAll(_, _)
TallyAll(run, k) ==
    IF k = 0
    THEN [all_mol_stable |-> 0, all_atom_stable |-> 0, all_n_atom |-> 0,
          n_recon_success |-> 0, n_complete |-> 0,
          all_atom_types |-> EmptyCounter, all_pair_dist |-> <<>>]
    ELSE LET t == TallyAll(run, k - 1)
             s == run[k]
         IN [all_mol_stable |-> t.all_mol_stable + s.stability[1],
             all_atom_stable |-> t.all_atom_stable + s.stability[2],
             all_n_atom |-> t.all_n_atom + s.stability[3],
             n_recon_success |-> t.n_recon_success + (IF s.recon # "MolReconsError" THEN 1 ELSE 0),
             n_complete |-> t.n_complete + (IF Complete(s) THEN 1 ELSE 0),
             all_atom_types |-> CounterAdd(t.all_atom_types, Counter(AtomicNumbers(s.n_atoms))),
             all_pair_dist |-> t.all_pair_dist \o PairsOf(s)]

\* The counter and lists that the scored samples feed (lines 114-125), after
\* the first k samples of `run`, when the scored samples are those at the
\* positions S.
RECURSIVE TallySuccess(_, _, _)
TallySuccess(run, S, k) ==
    IF k = 0
    THEN [n_eval_success |-> 0, success_atom_types |-> EmptyCounter,
          all_bond_dist |-> <<>>, success_pair_dist |-> <<>>]
    ELSE LET t == TallySuccess(run, S, k - 1)
             s == run[k]
         IN IF k \notin S THEN t
            ELSE [n_eval_success |-> t.n_eval_success + 1,
                  success_atom_types |-> CounterAdd(t.success_atom_types,
                                                    Counter(AtomicNumbers(s.n_atoms))),
                  all_bond_dist |-> t.all_bond_dist \o BondsOf(s),
                  success_pair_dist |-> t.success_pair_dist \o PairsOf(s)]

\* The same counters and lists in the state, each list read as a multiset.
ResultAll ==
    [all_mol_stable |-> all_mol_stable, all_atom_stable |-> all_atom_stable,
     all_n_atom |-> all_n_atom, n_recon_success |-> n_recon_success,
     n_complete |-> n_complete, all_atom_types |-> all_atom_types,
     all_pair_dist |-> BagOf(all_pair_dist)]
ResultSuccess ==
    [n_eval_success |-> n_eval_success, success_atom_types |-> success_atom_types,
     all_bond_dist |-> BagOf(all_bond_dist), success_pair_dist |-> BagOf(success_pair_dist)]
UnorderedAll(t) == [t EXCEPT !.all_pair_dist = BagOf(@)]
UnorderedSuccess(t) == [t EXCEPT !.all_bond_dist = BagOf(@), !.success_pair_dist = BagOf(@)]

Permuted(run, p) == [k \in DOMAIN run |-> run[p[k]]]

\* C12: the result of a run does not depend on the order of the samples.
\* When the report is out, the counters, the atom-type counters and the
\* multisets of all_pair_dist, all_bond_dist and success_pair_dist are those
\* of the samples taken in any order, each sample keeping its outcome (S is
\* the set of the samples whose scoring succeeded in this run).
C12_OrderIndependent ==
    Reported =>
        LET all == ResultAll
            success == ResultSuccess
        IN /\ \A p \in Permutations(DOMAIN r) :
                  UnorderedAll(TallyAll(Permuted(r, p), Len(r))) = all
           /\ \E S \in SUBSET {k \in DOMAIN r : Complete(r[k])} :
                  \A p \in Permutations(DOMAIN r) :
                      UnorderedSuccess(TallySuccess(Permuted(r, p),
                                                    {k \in DOMAIN r : p[k] \in S}, Len(r)))
                          = success
\* Two different samples, one of them scored, and pair and bond records in
\* the lists.
C12_Witness ==
    /\ Reported
    /\ Len(r) >= 2
    /\ r[1] # r[2]
    /\ n_complete >= 1
    /\ n_eval_success = 1
    /\ n_recon_success < Len(r)
    /\ Len(all_pair_dist) > Len(success_pair_dist)
    /\ success_pair_dist # <<>>
    /\ all_bond_dist # <<>>

\* C13: for every non-empty sequence of samples, whatever the outcome of each
\* (reconstruction failure, fragments, scoring failure, full success), every
\* sample is processed once and in order: the stability totals hold each
\* checked sample once, one sample adds at most 1 to n_recon_success,
\* n_complete and n_eval_success; and the run goes on to the report, so it
\* never ends in an exception.  Stated for verbose off and decodable samples.
C13_EachSampleOnceThenReport ==
    (Len(r) > 0 /\ ~args.verbose /\ \A k \in DOMAIN r : r[k].decodable)
        => /\ all_mol_stable = VerdictSum(Checked, 1)
           /\ all_atom_stable = VerdictSum(Checked, 2)
           /\ all_n_atom = VerdictSum(Checked, 3)
           /\ n_recon_success - entry.n_recon_success \in {0, 1}
           /\ n_complete - entry.n_complete \in {0, 1}
           /\ n_eval_success - entry.n_eval_success \in {0, 1}
           /\ pc # "crashed"

\* C14: every docking call is made with a timeout, so a docking run that does
\* not return on its own is ended and its sample counts as a scoring failure:
\* the script is never left waiting in a docking call.
C14_DockingTimeBoxed == pc # "blocked"

\* C15: the 'evaluated mols' number of the final summary line (line 160) is
\* n_eval_success: results holds one entry per sample that passed the
\* chemical/docking check.
C15_EvaluatedIsEvalSuccess == Reported => summary.evaluated = n_eval_success

\* The docking calls made for the current sample, in order.
IsDockingCall(c) == c \in {"run_sync", "run:score_only", "run:minimize", "run:dock"}
DockingCallsMade == SelectSeq(calls, IsDockingCall)
ExpectedDocking ==
    CASE args.docking_mode = "none" -> <<>>
      [] args.docking_mode = "qvina" -> <<"run_sync">>
      [] args.docking_mode = "vina_score" -> <<"run:score_only", "run:minimize">>
      [] args.docking_mode = "vina_dock" -> <<"run:score_only", "run:minimize", "run:dock">>

SubBag(a, b) == \A x \in DOMAIN a : x \in DOMAIN b /\ a[x] <= b[x]

\* The samples counted in n_eval_success whose lines 120-125 have run: all of
\* them, but for the sample that is between line 114 and line 125.
Accumulated == n_eval_success - (IF pc = "accumulate" THEN 1 ELSE 0)

====
